---- MODULE Spec2Model ----
(***************************************************************************)
(* Voice scrambler (VoiceScrambler.py, ScramblerHelper.py).                *)
(*                                                                         *)
(* Representation.  A signal is the set of the frequencies (Hz) of the     *)
(* tones it contains; 0 is a DC offset and {} is silence.  A Chebyshev     *)
(* filter is its design parameters, and filtering keeps the tones of the   *)
(* pass band (an ideal filter: the abstraction errs in the filters'        *)
(* favour).  Multiplying by a sine at fc moves a tone f to |f - fc| and    *)
(* f + fc, folded at the sample rate.  Seconds are exact rationals         *)
(* [num, den] in lowest terms (the floats of the code, without rounding).  *)
(* Python lists are sequences: list index i is sequence index i + 1.  A    *)
(* Python exception is a value [err, val] with err # "".                   *)
(***************************************************************************)
EXTENDS Integers, Sequences, FiniteSets, Bags, TLC

\* ------------------------------------------------------------------ bounds
MaxBand == 2
MaxRateInt == 3
MaxFiltBands == 5
MaxGenBands == 9
MaxShuffle == 3
MaxBufLen == 3
MaxAmp == 2

\* ------------------------------------------------------------- arithmetic
Abs(x) == IF x < 0 THEN -x ELSE x

RECURSIVE GCD(_, _)
GCD(a, b) == IF b = 0 THEN a ELSE GCD(b, a % b)

\* The rational n/d (d # 0) in lowest terms with a positive denominator.
Frac(n, d) ==
    LET g == GCD(Abs(n), Abs(d))
        s == IF d < 0 THEN -1 ELSE 1
    IN  [num |-> (s * n) \div g, den |-> Abs(d) \div g]

Zero == Frac(0, 1)
MinusOne == Frac(-1, 1)
Half == Frac(1, 2)

Less(a, b) == a.num * b.den < b.num * a.den

\* Python's int() of the quotient a / b of two rationals: truncation toward 0.
TruncDiv(a, b) ==
    LET n == a.num * b.den
        d == a.den * b.num
        q == Abs(n) \div Abs(d)
    IN  IF (n < 0) = (d < 0) THEN q ELSE -q

\* ---------------------------------------------------------------- strings
DigitChars == <<"0", "1", "2", "3", "4", "5", "6", "7", "8", "9">>

Digit(ch) == (CHOOSE k \in 1..10 : DigitChars[k] = ch) - 1

RECURSIVE ParseNat(_)
ParseNat(str) ==
    IF Len(str) = 0 THEN 0
    ELSE 10 * ParseNat(SubSeq(str, 1, Len(str) - 1)) + Digit(str[Len(str)])

\* int(str) of an optionally signed decimal literal.
ParseInt(str) ==
    IF Len(str) > 0 /\ str[1] = "-" THEN -ParseNat(Tail(str)) ELSE ParseNat(str)

\* str.split(sep): the fields between the separators.
RECURSIVE Split(_, _)
Split(str, sep) ==
    IF \A k \in 1..Len(str) : str[k] # sep THEN <<str>>
    ELSE LET k == CHOOSE j \in 1..Len(str) :
                      str[j] = sep /\ \A m \in 1..(j - 1) : str[m] # sep
         IN  <<SubSeq(str, 1, k - 1)>> \o Split(SubSeq(str, k + 1, Len(str)), sep)

\* The decimal literal of a one-digit integer, used to enumerate the inputs.
IntStr(n) == IF n < 0 THEN <<"-", DigitChars[1 - n]>> ELSE <<DigitChars[n + 1]>>

\* ------------------------------------------------------------ exceptions
Ok(v) == [err |-> "", val |-> v]
Raise(e) == [err |-> e, val |-> <<>>]

\* ---------------------------------------------------- ScramblerHelper.py
standard_carriers == <<2632, 2718, 2868, 3023, 3196, 3339, 3495, 3729>>

\* The alias of frequency f at sample rate fs, in [0, fs/2].
FoldFreq(f, fs) ==
    LET g == f % fs
    IN  IF 2 * g > fs THEN fs - g ELSE g

\* sg.cheby1(5, 4, Wn, btype, output='sos', fs=fs): the design parameters, or
\* ValueError unless 0 < Wn < fs/2 (and Wn[0] < Wn[1] for a band pass).
cheby1(lo, hi, btype, fs) ==
    IF btype = "lowpass"
    THEN IF hi > 0 /\ 2 * hi < fs
         THEN Ok([btype |-> btype, lo |-> 0, hi |-> hi, fs |-> fs])
         ELSE Raise("ValueError")
    ELSE IF lo > 0 /\ lo < hi /\ 2 * hi < fs
         THEN Ok([btype |-> btype, lo |-> lo, hi |-> hi, fs |-> fs])
         ELSE Raise("ValueError")

\* sg.sosfilt(filt, signal): the tones of the pass band.
sosfilt(filt, signal) == {f \in signal : filt.lo <= f /\ f <= filt.hi}

\* signal * carrier, sample by sample.
Multiply(signal, carr, fs) ==
    UNION {{FoldFreq(Abs(f - carr.f), fs), FoldFreq(f + carr.f, fs)} : f \in signal}

\* A faulty variant: the next band starts at the previous upper cutoff, up - 1.
RECURSIVE getfiltsLoop_Shared(_, _, _, _, _, _)
getfiltsLoop_Shared(b, n, step, s, fs, filts) ==
    IF b >= n THEN Ok(filts)
    ELSE LET up == (b + 1) * step
             f == cheby1(s, up - 1, "bandpass", fs)
         IN  IF f.err # "" THEN f
             ELSE getfiltsLoop_Shared(b + 1, n, step, up - 1, fs, Append(filts, f.val))

\* getfilts: the loop over b in range(n), from band b with lower cutoff s.
RECURSIVE getfiltsLoop(_, _, _, _, _, _)
getfiltsLoop(b, n, step, s, fs, filts) ==
    IF b >= n THEN Ok(filts)
    ELSE LET up == (b + 1) * step
             f == cheby1(s, up - 1, "bandpass", fs)
         IN  IF f.err # "" THEN f
             ELSE getfiltsLoop(b + 1, n, step, up, fs, Append(filts, f.val))

\* int((fs / 2) / n) for n # 0: truncation toward 0 of fs / (2n).
BandStep(n, fs) == TruncDiv(Frac(fs, 2), Frac(n, 1))

getfilts(n, fs) ==
    IF n = 0 THEN Raise("ZeroDivisionError")
    ELSE getfiltsLoop(0, n, BandStep(n, fs), 1, fs, <<>>)

\* spectrum reads the global lb, which ScramblerHelper.py never binds.
spectrum(x, hl) == Raise("NameError")

bandspec(xs, hl) ==
    IF Len(xs) = 0 THEN Raise("ZeroDivisionError")
    ELSE spectrum(xs[1], hl)

remove_dc(signal) == signal \ {0}

lpfilter(cutoff, fs) == cheby1(0, cutoff, "lowpass", fs)

\* prefilter (line 58) is computed and never used: the product takes signal.
invert(signal, carr, filt) ==
    LET prefilter == sosfilt(filt, signal)
        inv_signal == Multiply(signal, carr, filt.fs)
        postfilter == sosfilt(filt, inv_signal)
    IN  postfilter

\* np.sin(f * 2 pi * t): a sine at f over the time vector.
carrier(f, t) == [f |-> f, t |-> t]

RECURSIVE generate_carriersLoop(_, _, _, _)
generate_carriersLoop(i, num_bands, t, carriers) ==
    IF i >= num_bands THEN carriers
    ELSE LET n == i % Len(standard_carriers)
         IN  generate_carriersLoop(i + 1, num_bands, t,
                 Append(carriers, carrier(standard_carriers[n + 1], t)))

generate_carriers(num_bands, t) == generate_carriersLoop(0, num_bands, t, <<>>)

\* A faulty variant: the table index does not wrap.
RECURSIVE generate_lpfiltersLoop_NoWrap(_, _, _, _)
generate_lpfiltersLoop_NoWrap(i, num_bands, fs, lpfilters) ==
    IF i >= num_bands THEN Ok(lpfilters)
    ELSE LET n == IF i < Len(standard_carriers) THEN i ELSE Len(standard_carriers) - 1
             f == lpfilter(standard_carriers[n + 1], fs)
         IN  IF f.err # "" THEN f
             ELSE generate_lpfiltersLoop_NoWrap(i + 1, num_bands, fs,
                      Append(lpfilters, f.val))

RECURSIVE generate_lpfiltersLoop(_, _, _, _)
generate_lpfiltersLoop(i, num_bands, fs, lpfilters) ==
    IF i >= num_bands THEN Ok(lpfilters)
    ELSE LET n == i % Len(standard_carriers)
             f == lpfilter(standard_carriers[n + 1], fs)
         IN  IF f.err # "" THEN f
             ELSE generate_lpfiltersLoop(i + 1, num_bands, fs, Append(lpfilters, f.val))

generate_lpfilters(num_bands, fs) == generate_lpfiltersLoop(0, num_bands, fs, <<>>)

bandsplit(signal, num_bands, fs) ==
    LET filts == getfilts(num_bands, fs)
    IN  IF filts.err # "" THEN filts
        ELSE bandspec([k \in 1..Len(filts.val) |-> sosfilt(filts.val[k], signal)], 1024)

\* A faulty variant: the book is applied twice.
shuffle_Twice(bands, book) ==
    IF \E k \in 1..Len(book) : book[k] < 0 \/ book[k] >= Len(bands)
    THEN Raise("IndexError")
    ELSE Ok([k \in 1..Len(book) |-> bands[book[book[k] + 1] + 1]])

\* [bands[i] for i in book]; an index outside the list is an IndexError.
shuffle(bands, book) ==
    IF \E k \in 1..Len(book) : book[k] < -Len(bands) \/ book[k] >= Len(bands)
    THEN Raise("IndexError")
    ELSE Ok([k \in 1..Len(book) |->
               bands[IF book[k] < 0 THEN Len(bands) + book[k] + 1 ELSE book[k] + 1]])

\* ----------------------------------------------------- VoiceScrambler.py
\* The peak used to normalise: np.max(signal), the largest sample.
RECURSIVE npMax(_)
npMax(signal) ==
    IF Len(signal) = 1 THEN signal[1]
    ELSE LET m == npMax(Tail(signal))
         IN  IF signal[1] > m THEN signal[1] ELSE m

\* The float s / m; a zero divisor gives inf = 1/0, -inf = -1/0 or nan = 0/0.
Divide(s, m) ==
    IF m = 0 THEN [num |-> IF s > 0 THEN 1 ELSE IF s < 0 THEN -1 ELSE 0, den |-> 0]
    ELSE Frac(s, m)

\* file[:-4] + 'scrambled.wav' or file[:-4] + 'descrambled.wav'.
wavfile_out_name(file, invert_flag) ==
    [stem |-> file, suffix |-> IF invert_flag THEN "scrambled.wav" ELSE "descrambled.wav"]

\* write_wav_file on a buffer of samples: what wavfile.write is handed.
write_wav_file(signal, file, Fs, invert_flag) ==
    LET m == npMax(signal)
        signalf32 == [k \in 1..Len(signal) |-> Divide(signal[k], m)]
    IN  [name |-> wavfile_out_name(file, invert_flag), Fs |-> Fs, data |-> signalf32]

read_wav_file(w) ==
    [Fs |-> w.Fs, Ts |-> Frac(1, w.Fs), duration |-> Frac(w.len, w.Fs),
     x |-> w.x, t |-> w.len]

\* A faulty variant: a rate equal to the duration is let through.
determine_rate_AtDuration(rate_fractional, duration) ==
    LET num_changes == ParseInt(Split(rate_fractional, "/")[1])
        seconds == ParseInt(Split(rate_fractional, "/")[2])
    IN  IF num_changes = 0 \/ seconds = 0 THEN Zero
        ELSE LET r == Frac(seconds, num_changes)
             IN  IF Less(r, Half) THEN MinusOne
                 ELSE IF Less(duration, r) THEN MinusOne
                 ELSE r

determine_rate(rate_fractional, duration) ==
    LET num_changes == ParseInt(Split(rate_fractional, "/")[1])
        seconds == ParseInt(Split(rate_fractional, "/")[2])
    IN  IF num_changes = 0 \/ seconds = 0 THEN Zero
        ELSE LET r == Frac(seconds, num_changes)
             IN  IF Less(r, Half) THEN MinusOne
                 ELSE IF ~Less(r, duration) THEN MinusOne
                 ELSE r

determine_num_permutations(r, duration) ==
    IF r = Zero THEN 1 ELSE TruncDiv(duration, r)

check_mode(mode) == IF mode < 0 \/ mode > 2 THEN -1 ELSE 0

check_bands(bands) == IF bands < 0 THEN -1 ELSE 0

\* ------------------------------------------------------------------ inputs
Modes == -1..3
BandArgs == -1..MaxBand
RateInts == -1..MaxRateInt
RateStrings == {IntStr(c) \o <<"/">> \o IntStr(s) : c \in RateInts, s \in RateInts}
SampleRates == {4000, 8000}
Lengths == {8000, 20000}
Tones == {0, 500, 3000}
WavFiles ==
    {[Fs |-> fs, len |-> n, x |-> x] :
        fs \in SampleRates, n \in Lengths, x \in SUBSET Tones}
InputFile == "speech_test.wav"

\* ------------------------------------------------------- state of one run
VARIABLES
    args,                \* the parsed command line
    wav,                 \* the content of the input file
    pc,                  \* position in main and scrambler
    phase,               \* "main", "scramble" or "descramble"
    error,               \* the exception that ended the run, "" if none
    speech_parameters,   \* <<>> until read
    rate, band_check, mode_check,
    called,              \* the functions entered, with their band count
    speech_dc_removed, num_perms, speech_band_split, carriers, lpfs,
    i,                   \* index of the running for loop
    speech_inverted_bands, speech_scrambled,
    speech_deinverted_bands, speech_descrambled,
    inverts,             \* the calls of invert
    writes               \* the calls of write_wav_file

mainVars ==
    <<args, wav, pc, phase, error, speech_parameters, rate, band_check, mode_check,
      called, speech_dc_removed, num_perms, speech_band_split, carriers, lpfs, i,
      speech_inverted_bands, speech_scrambled, speech_deinverted_bands,
      speech_descrambled, inverts, writes>>

MainInit ==
    /\ args \in {[mode |-> m, file |-> InputFile, rate |-> r, band |-> b] :
                    m \in Modes, r \in RateStrings, b \in BandArgs}
    /\ wav \in {w \in WavFiles : \A f \in w.x : 2 * f < w.Fs}
    /\ pc = "read"
    /\ phase = "main"
    /\ error = ""
    /\ speech_parameters = <<>>
    /\ rate = Zero
    /\ band_check = 0
    /\ mode_check = 0
    /\ called = {}
    /\ speech_dc_removed = <<>>
    /\ num_perms = 0
    /\ speech_band_split = <<>>
    /\ carriers = <<>>
    /\ lpfs = <<>>
    /\ i = 0
    /\ speech_inverted_bands = <<>>
    /\ speech_scrambled = <<>>
    /\ speech_deinverted_bands = <<>>
    /\ speech_descrambled = <<>>
    /\ inverts = <<>>
    /\ writes = <<>>

Fs == speech_parameters[1].Fs
duration == speech_parameters[1].duration
speech_original == speech_parameters[1].x
time_vector == speech_parameters[1].t

\* main, line 257
ReadWav ==
    /\ pc = "read"
    /\ speech_parameters' = <<read_wav_file(wav)>>
    /\ pc' = "rate"
    /\ UNCHANGED <<args, wav, phase, error, rate, band_check, mode_check, called,
                   speech_dc_removed, num_perms, speech_band_split, carriers, lpfs, i,
                   speech_inverted_bands, speech_scrambled, speech_deinverted_bands,
                   speech_descrambled, inverts, writes>>

\* main, line 258
DetermineRate ==
    /\ pc = "rate"
    /\ rate' = determine_rate(args.rate, duration)
    /\ pc' = "check_bands"
    /\ UNCHANGED <<args, wav, phase, error, speech_parameters, band_check, mode_check,
                   called, speech_dc_removed, num_perms, speech_band_split, carriers,
                   lpfs, i, speech_inverted_bands, speech_scrambled,
                   speech_deinverted_bands, speech_descrambled, inverts, writes>>

\* main, line 260
CheckBands ==
    /\ pc = "check_bands"
    /\ band_check' = check_bands(args.band)
    /\ pc' = "check_mode"
    /\ UNCHANGED <<args, wav, phase, error, speech_parameters, rate, mode_check,
                   called, speech_dc_removed, num_perms, speech_band_split, carriers,
                   lpfs, i, speech_inverted_bands, speech_scrambled,
                   speech_deinverted_bands, speech_descrambled, inverts, writes>>

\* main, line 261
CheckMode ==
    /\ pc = "check_mode"
    /\ mode_check' = check_mode(args.mode)
    /\ pc' = "gate"
    /\ UNCHANGED <<args, wav, phase, error, speech_parameters, rate, band_check,
                   called, speech_dc_removed, num_perms, speech_band_split, carriers,
                   lpfs, i, speech_inverted_bands, speech_scrambled,
                   speech_deinverted_bands, speech_descrambled, inverts, writes>>

\* A faulty variant: the mode check is left out of the condition.
ArgumentError_NoMode == Less(rate, Zero) \/ band_check < 0

\* The condition of main's if, line 263.
ArgumentError == Less(rate, Zero) \/ band_check < 0 \/ mode_check < 0

\* main, lines 263-269: return, or call scrambler.
Gate ==
    /\ pc = "gate"
    /\ IF ArgumentError
       THEN /\ pc' = "exit"
            /\ UNCHANGED <<phase, called>>
       ELSE /\ pc' = "start"
            /\ phase' = "scramble"
            /\ called' = called \cup {[fn |-> "scrambler", n |-> args.band]}
    /\ UNCHANGED <<args, wav, error, speech_parameters, rate, band_check, mode_check,
                   speech_dc_removed, num_perms, speech_band_split, carriers, lpfs, i,
                   speech_inverted_bands, speech_scrambled, speech_deinverted_bands,
                   speech_descrambled, inverts, writes>>

\* An uncaught exception ends the run.
Crash(e) ==
    /\ pc' = "crashed"
    /\ error' = e

\* scrambler, lines 134-152: mode_string is bound for modes 0, 1 and 2 only.
ScramblerStart ==
    /\ pc = "start"
    /\ IF args.mode \in {0, 1, 2}
       THEN pc' = "dc" /\ UNCHANGED error
       ELSE Crash("UnboundLocalError")
    /\ UNCHANGED <<args, wav, phase, speech_parameters, rate, band_check, mode_check,
                   called, speech_dc_removed, num_perms, speech_band_split, carriers,
                   lpfs, i, speech_inverted_bands, speech_scrambled,
                   speech_deinverted_bands, speech_descrambled, inverts, writes>>

\* scrambler, line 155 (of speech_original) and line 224 (of speech_scrambled)
RemoveDC ==
    /\ pc = "dc"
    /\ IF phase = "scramble"
       THEN /\ speech_dc_removed' = <<remove_dc(speech_original)>>
            /\ pc' = "num_perms"
            /\ UNCHANGED error
       ELSE IF speech_scrambled = <<>>
       THEN Crash("UnboundLocalError") /\ UNCHANGED speech_dc_removed
       ELSE /\ speech_dc_removed' = <<remove_dc(speech_scrambled[1])>>
            /\ pc' = "split"
            /\ UNCHANGED error
    /\ UNCHANGED <<args, wav, phase, speech_parameters, rate, band_check, mode_check,
                   called, num_perms, speech_band_split, carriers, lpfs, i,
                   speech_inverted_bands, speech_scrambled, speech_deinverted_bands,
                   speech_descrambled, inverts, writes>>

\* scrambler, lines 163-179: the three mode branches are pass.
NumPerms ==
    /\ pc = "num_perms"
    /\ num_perms' = determine_num_permutations(rate, duration)
    /\ pc' = "split"
    /\ UNCHANGED <<args, wav, phase, error, speech_parameters, rate, band_check,
                   mode_check, called, speech_dc_removed, speech_band_split, carriers,
                   lpfs, i, speech_inverted_bands, speech_scrambled,
                   speech_deinverted_bands, speech_descrambled, inverts, writes>>

\* scrambler, lines 186-189 and 230-233
BandSplit ==
    /\ pc = "split"
    /\ IF args.band > 1
       THEN LET r == bandsplit(speech_dc_removed[1], args.band, Fs)
            IN  /\ called' = called \cup {[fn |-> "getfilts", n |-> args.band]}
                /\ IF r.err # ""
                   THEN Crash(r.err) /\ UNCHANGED speech_band_split
                   ELSE /\ speech_band_split' = r.val
                        /\ pc' = IF phase = "scramble" THEN "carriers" ELSE "invert"
                        /\ UNCHANGED error
       ELSE /\ speech_band_split' = <<speech_dc_removed[1]>>
            /\ pc' = IF phase = "scramble" THEN "carriers" ELSE "invert"
            /\ UNCHANGED <<error, called>>
    /\ i' = 0
    /\ UNCHANGED <<args, wav, phase, speech_parameters, rate, band_check, mode_check,
                   speech_dc_removed, num_perms, carriers, lpfs,
                   speech_inverted_bands, speech_scrambled, speech_deinverted_bands,
                   speech_descrambled, inverts, writes>>

\* scrambler, line 196
GenerateCarriers ==
    /\ pc = "carriers"
    /\ carriers' = generate_carriers(args.band, time_vector)
    /\ called' = called \cup {[fn |-> "generate_carriers", n |-> args.band]}
    /\ pc' = "lpfs"
    /\ UNCHANGED <<args, wav, phase, error, speech_parameters, rate, band_check,
                   mode_check, speech_dc_removed, num_perms, speech_band_split, lpfs, i,
                   speech_inverted_bands, speech_scrambled, speech_deinverted_bands,
                   speech_descrambled, inverts, writes>>

\* scrambler, line 197
GenerateLpfilters ==
    /\ pc = "lpfs"
    /\ called' = called \cup {[fn |-> "generate_lpfilters", n |-> args.band]}
    /\ LET r == generate_lpfilters(args.band, Fs)
       IN  IF r.err # ""
           THEN Crash(r.err) /\ UNCHANGED lpfs
           ELSE lpfs' = r.val /\ pc' = "invert" /\ UNCHANGED error
    /\ UNCHANGED <<args, wav, phase, speech_parameters, rate, band_check, mode_check,
                   speech_dc_removed, num_perms, speech_band_split, carriers, i,
                   speech_inverted_bands, speech_scrambled, speech_deinverted_bands,
                   speech_descrambled, inverts, writes>>

\* scrambler, lines 203-204 and 236-237: one iteration of the loop over the bands.
InvertBand ==
    /\ pc = "invert"
    /\ i < Len(speech_band_split)
    /\ IF i >= Len(carriers) \/ i >= Len(lpfs)
       THEN /\ Crash("IndexError")
            /\ UNCHANGED <<i, speech_inverted_bands, speech_deinverted_bands, inverts>>
       ELSE LET out == invert(speech_band_split[i + 1], carriers[i + 1], lpfs[i + 1])
            IN  /\ IF phase = "scramble"
                   THEN /\ speech_inverted_bands' = Append(speech_inverted_bands, out)
                        /\ UNCHANGED speech_deinverted_bands
                   ELSE /\ speech_deinverted_bands' = Append(speech_deinverted_bands, out)
                        /\ UNCHANGED speech_inverted_bands
                /\ inverts' = Append(inverts,
                       [phase |-> phase, index |-> i, signal |-> speech_band_split[i + 1],
                        carrier |-> carriers[i + 1], filt |-> lpfs[i + 1]])
                /\ i' = i + 1
                /\ UNCHANGED <<pc, error>>
    /\ UNCHANGED <<args, wav, phase, speech_parameters, rate, band_check, mode_check,
                   called, speech_dc_removed, num_perms, speech_band_split, carriers,
                   lpfs, speech_scrambled, speech_descrambled, writes>>

\* scrambler, lines 206-210 and 239-243: with more than one band nothing is bound.
Combine ==
    /\ pc = "invert"
    /\ i >= Len(speech_band_split)
    /\ IF args.band > 1
       THEN UNCHANGED <<speech_scrambled, speech_descrambled>>
       ELSE IF phase = "scramble"
       THEN /\ speech_scrambled' = <<speech_inverted_bands[1]>>
            /\ UNCHANGED speech_descrambled
       ELSE /\ speech_descrambled' = <<speech_deinverted_bands[1]>>
            /\ UNCHANGED speech_scrambled
    /\ pc' = "write"
    /\ UNCHANGED <<args, wav, phase, error, speech_parameters, rate, band_check,
                   mode_check, called, speech_dc_removed, num_perms, speech_band_split,
                   carriers, lpfs, i, speech_inverted_bands, speech_deinverted_bands,
                   inverts, writes>>

\* scrambler, lines 215 and 248, with write_wav_file's choice of the file name.
\* Dividing by the peak leaves the set of tones as it is.
WriteWav ==
    /\ pc = "write"
    /\ LET buf == IF phase = "scramble" THEN speech_scrambled ELSE speech_descrambled
           flag == (phase = "scramble")
       IN  IF buf = <<>>
           THEN Crash("UnboundLocalError") /\ UNCHANGED <<writes, phase>>
           ELSE /\ writes' = Append(writes,
                       [name |-> wavfile_out_name(args.file, flag), Fs |-> Fs,
                        invert_flag |-> flag, signal |-> buf[1]])
                /\ IF phase = "scramble"
                   THEN phase' = "descramble" /\ pc' = "dc"
                   ELSE pc' = "done" /\ UNCHANGED phase
                /\ UNCHANGED error
    /\ UNCHANGED <<args, wav, speech_parameters, rate, band_check, mode_check, called,
                   speech_dc_removed, num_perms, speech_band_split, carriers, lpfs, i,
                   speech_inverted_bands, speech_scrambled, speech_deinverted_bands,
                   speech_descrambled, inverts>>

\* --------------------------------------------- the helpers, called alone
\* One call of one helper on an input drawn from the bounded sets below.
VARIABLES
    hcall,   \* the call: the function and its arguments
    hpc,     \* "idle", "call", "returned", "raised" or "back"
    hret,    \* what the call returned
    hback    \* shuffle, applied to hret with the inverse of the call's book

helperVars == <<hcall, hpc, hret, hback>>

vars == <<mainVars, helperVars>>

NoCall == [fn |-> "none", n |-> 0, fs |-> 0, bands |-> <<>>, book |-> <<>>, buf |-> <<>>]

FiltRates == {4, 10, 4000, 8000, 11025, 16000, 22050, 44100}
GenRates == {4000, 6000, 8000, 44100}
BandVals == {"a", "b", "c"}

\* The lists of 0..n-1 in every order.
Books(n) == {b \in [1..n -> 0..(n - 1)] : \A j, k \in 1..n : b[j] = b[k] => j = k}

HelperCalls ==
    {[NoCall EXCEPT !.fn = "getfilts", !.n = n, !.fs = fs] :
        n \in 0..MaxFiltBands, fs \in FiltRates}
    \cup {[NoCall EXCEPT !.fn = "generate_carriers", !.n = n] : n \in 0..MaxGenBands}
    \cup {[NoCall EXCEPT !.fn = "generate_lpfilters", !.n = n, !.fs = fs] :
            n \in 0..MaxGenBands, fs \in GenRates}
    \cup UNION {{[NoCall EXCEPT !.fn = "shuffle", !.n = n, !.bands = bs, !.book = bk] :
                    bs \in [1..n -> BandVals], bk \in Books(n)} : n \in 0..MaxShuffle}
    \cup UNION {{[NoCall EXCEPT !.fn = "write_wav_file", !.n = n, !.fs = 8000, !.buf = b] :
                    b \in [1..n -> (-MaxAmp)..MaxAmp]} : n \in 1..MaxBufLen}

HelperIdle ==
    /\ hcall = NoCall
    /\ hpc = "idle"
    /\ hret = <<>>
    /\ hback = <<>>

HelperInit ==
    /\ hcall \in HelperCalls
    /\ hpc = "call"
    /\ hret = <<>>
    /\ hback = <<>>

MainIdle ==
    /\ args = [mode |-> 0, file |-> InputFile, rate |-> IntStr(0) \o <<"/">> \o IntStr(0),
               band |-> 1]
    /\ wav = [Fs |-> 8000, len |-> 8000, x |-> {}]
    /\ pc = "idle"
    /\ phase = "main"
    /\ error = ""
    /\ speech_parameters = <<>>
    /\ rate = Zero
    /\ band_check = 0
    /\ mode_check = 0
    /\ called = {}
    /\ speech_dc_removed = <<>>
    /\ num_perms = 0
    /\ speech_band_split = <<>>
    /\ carriers = <<>>
    /\ lpfs = <<>>
    /\ i = 0
    /\ speech_inverted_bands = <<>>
    /\ speech_scrambled = <<>>
    /\ speech_deinverted_bands = <<>>
    /\ speech_descrambled = <<>>
    /\ inverts = <<>>
    /\ writes = <<>>

CallGetfilts ==
    /\ hpc = "call"
    /\ hcall.fn = "getfilts"
    /\ LET r == getfilts(hcall.n, hcall.fs)
       IN  /\ hret' = r.val
           /\ hpc' = IF r.err # "" THEN "raised" ELSE "returned"
    /\ UNCHANGED <<hcall, hback>>

CallGenerateCarriers ==
    /\ hpc = "call"
    /\ hcall.fn = "generate_carriers"
    /\ hret' = generate_carriers(hcall.n, 8000)
    /\ hpc' = "returned"
    /\ UNCHANGED <<hcall, hback>>

CallGenerateLpfilters ==
    /\ hpc = "call"
    /\ hcall.fn = "generate_lpfilters"
    /\ LET r == generate_lpfilters(hcall.n, hcall.fs)
       IN  /\ hret' = r.val
           /\ hpc' = IF r.err # "" THEN "raised" ELSE "returned"
    /\ UNCHANGED <<hcall, hback>>

CallShuffle ==
    /\ hpc = "call"
    /\ hcall.fn = "shuffle"
    /\ LET r == shuffle(hcall.bands, hcall.book)
       IN  /\ hret' = r.val
           /\ hpc' = IF r.err # "" THEN "raised" ELSE "returned"
    /\ UNCHANGED <<hcall, hback>>

\* The inverse permutation of C8: the book that undoes book.
InverseBook(book) ==
    [k \in 1..Len(book) |-> (CHOOSE j \in 1..Len(book) : book[j] = k - 1) - 1]

\* The descrambling side: shuffle again, with the inverse book.
CallShuffleBack ==
    /\ hpc = "returned"
    /\ hcall.fn = "shuffle"
    /\ LET r == shuffle(hret, InverseBook(hcall.book))
       IN  /\ hback' = r.val
           /\ hpc' = IF r.err # "" THEN "raised" ELSE "back"
    /\ UNCHANGED <<hcall, hret>>

CallWriteWavFile ==
    /\ hpc = "call"
    /\ hcall.fn = "write_wav_file"
    /\ \E flag \in BOOLEAN :
          hret' = <<write_wav_file(hcall.buf, InputFile, hcall.fs, flag)>>
    /\ hpc' = "returned"
    /\ UNCHANGED <<hcall, hback>>

\* ---------------------------------------------------------- specifications
Init == MainInit /\ HelperIdle

Next ==
    \/ ReadWav /\ UNCHANGED helperVars
    \/ DetermineRate /\ UNCHANGED helperVars
    \/ CheckBands /\ UNCHANGED helperVars
    \/ CheckMode /\ UNCHANGED helperVars
    \/ Gate /\ UNCHANGED helperVars
    \/ ScramblerStart /\ UNCHANGED helperVars
    \/ RemoveDC /\ UNCHANGED helperVars
    \/ NumPerms /\ UNCHANGED helperVars
    \/ BandSplit /\ UNCHANGED helperVars
    \/ GenerateCarriers /\ UNCHANGED helperVars
    \/ GenerateLpfilters /\ UNCHANGED helperVars
    \/ InvertBand /\ UNCHANGED helperVars
    \/ Combine /\ UNCHANGED helperVars
    \/ WriteWav /\ UNCHANGED helperVars

\* One run of main on one command line and one input file.
Spec == Init /\ [][Next]_vars

HelperNext ==
    \/ CallGetfilts /\ UNCHANGED mainVars
    \/ CallGenerateCarriers /\ UNCHANGED mainVars
    \/ CallGenerateLpfilters /\ UNCHANGED mainVars
    \/ CallShuffle /\ UNCHANGED mainVars
    \/ CallShuffleBack /\ UNCHANGED mainVars
    \/ CallWriteWavFile /\ UNCHANGED mainVars

HelperStart == MainIdle /\ HelperInit

\* One call of one helper function.
HelperSpec == HelperStart /\ [][HelperNext]_vars

\* ------------------------------------------------------------------ claims
\* The two integers of the rate argument "c/s".
RateC == ParseInt(Split(args.rate, "/")[1])
RateS == ParseInt(Split(args.rate, "/")[2])

\* main has taken its decision (line 263).
Decided == pc \notin {"idle", "read", "rate", "check_bands", "check_mode", "gate"}

\* The three checks have been made.
Checked == pc \notin {"idle", "read", "rate", "check_bands", "check_mode"}

ScramblerEntered == \E e \in called : e.fn = "scrambler"

\* C4: whenever determine_rate returned a negative value, or check_bands or
\* check_mode returned -1, the run ends at main's return: scrambler is never
\* entered and write_wav_file is never called.
C4_AbortOnArgumentError ==
    (Checked /\ (rate.num < 0 \/ band_check = -1 \/ mode_check = -1))
        => /\ pc \in {"gate", "exit"}
           /\ ~ScramblerEntered
           /\ writes = <<>>

\* A run with a valid rate and band count and mode 3 has returned from main.
C4_Witness ==
    /\ pc = "exit"
    /\ mode_check = -1
    /\ rate.num >= 0
    /\ band_check = 0

\* The duration of the input file, in seconds.
FileDuration == Frac(wav.len, wav.Fs)

\* The rate argument names a seconds-per-change value s/c in [0.5, duration).
RateInRange ==
    /\ RateC # 0
    /\ ~Less(Frac(RateS, RateC), Half)
    /\ Less(Frac(RateS, RateC), FileDuration)

RateDetermined == pc \notin {"idle", "read", "rate"}

Aborted == pc = "exit" /\ ~ScramblerEntered /\ writes = <<>>

\* C6 as stated: the rate handed on is 0 for "0/0", s/c when 0.5 <= s/c <
\* duration, and every other rate string gives -1 and the run is aborted.
C6_RateAsStated ==
    RateDetermined =>
        /\ (RateC = 0 /\ RateS = 0) => rate = Zero
        /\ RateInRange => rate = Frac(RateS, RateC)
        /\ (~(RateC = 0 /\ RateS = 0) /\ ~RateInRange)
              => (rate = MinusOne /\ (Decided => Aborted))
        /\ ScramblerEntered => (rate = Zero \/ (~Less(rate, Half) /\ Less(rate, duration)))

\* C6 amended: the rate handed on is 0 whenever either integer of the rate
\* string is 0 ("0/0", but also "0/s" and "c/0"), s/c when neither is 0 and
\* 0.5 <= s/c < duration, and every other rate string gives -1 and the run is
\* aborted; scrambler only ever receives 0 or a value in [0.5, duration).
C6_RateAmended ==
    RateDetermined =>
        /\ (RateC = 0 \/ RateS = 0) => rate = Zero
        /\ RateInRange => rate = Frac(RateS, RateC)
        /\ (~(RateC = 0 \/ RateS = 0) /\ ~RateInRange)
              => (rate = MinusOne /\ (Decided => Aborted))
        /\ ScramblerEntered => (rate = Zero \/ (~Less(rate, Half) /\ Less(rate, duration)))

\* scrambler has been entered with an accepted rate s/c > 0.
C6_Witness ==
    /\ ScramblerEntered
    /\ RateInRange
    /\ rate = Frac(RateS, RateC)

\* The parameters passed validation as the claim C3 lists it.
Validated ==
    /\ Checked
    /\ args.mode \in {0, 1, 2}
    /\ args.band >= 1
    /\ rate.num >= 0

\* C3: a run whose parameters pass validation never ends in an exception, and
\* when it is done it has handed exactly two buffers to the file writer, the
\* scrambled one (invert_flag true) and then the descrambled one (false).
C3_RunsToCompletion ==
    Validated =>
        /\ pc # "crashed"
        /\ pc = "done" =>
              /\ Len(writes) = 2
              /\ writes[1].invert_flag /\ writes[1].signal = speech_scrambled[1]
              /\ ~writes[2].invert_flag /\ writes[2].signal = speech_descrambled[1]

\* C5: a band count n <= 0 makes check_bands return -1, and no function of
\* the pipeline is ever run with n <= 0.
C5_NonPositiveBandsRejected ==
    /\ (Checked /\ args.band <= 0) => band_check = -1
    /\ \A e \in called : e.n >= 1

\* The boundaries at every multiple of r seconds, clipped to [0, d].
Boundaries(r, d) ==
    {Frac(k * r.num, r.den) : k \in {j \in 0..(TruncDiv(d, r) + 1) :
                                        ~Less(d, Frac(j * r.num, r.den))}}
        \cup {d}

SegmentCount(r, d) == IF r = Zero THEN 1 ELSE Cardinality(Boundaries(r, d)) - 1

NumPermsDone ==
    \/ phase = "descramble"
    \/ phase = "scramble" /\ pc \in {"split", "carriers", "lpfs", "invert", "write"}

\* C7: in Fixed mode num_perms is 1 for rate 0 and otherwise the number of
\* segments between the boundaries at the multiples of rate clipped to
\* [0, duration], and it is always at least 1.
C7_NumPermsIsSegmentCount ==
    (NumPermsDone /\ args.mode = 0) =>
        /\ num_perms = SegmentCount(rate, duration)
        /\ num_perms >= 1

\* C1: a finished run with one band, mode 0 and rate "0/0" (rate 0) has
\* called invert once to scramble the DC-removed signal and once to
\* descramble, both with carrier 0 and low-pass filter 0, and the descrambled
\* signal is the DC-removed original.
C1_RoundTrip ==
    (pc = "done" /\ args.band = 1 /\ args.mode = 0 /\ RateC = 0 /\ RateS = 0) =>
        /\ rate = Zero
        /\ Len(inverts) = 2
        /\ inverts[1].phase = "scramble" /\ inverts[1].index = 0
        /\ inverts[1].signal = remove_dc(speech_original)
        /\ inverts[2].phase = "descramble" /\ inverts[2].index = 0
        /\ inverts[1].carrier = carriers[1] /\ inverts[2].carrier = carriers[1]
        /\ inverts[1].filt = lpfs[1] /\ inverts[2].filt = lpfs[1]
        /\ speech_descrambled[1] = remove_dc(speech_original)

Returned(fn) == hcall.fn = fn /\ hpc \in {"returned", "back"}

\* C2 as stated: the cutoff pairs getfilts builds for n >= 1 bands are
\* strictly increasing and non-overlapping, and they cover (0, fs/2) with no
\* gap wider than 1 Hz: below the first band, between two bands, and between
\* the last band and Nyquist, which the last band stays under.
C2_BandsCoverSpectrum ==
    (Returned("getfilts") /\ hcall.n >= 1) =>
        /\ Len(hret) = hcall.n
        /\ \A b \in 1..Len(hret) : hret[b].lo < hret[b].hi
        /\ \A b \in 1..(Len(hret) - 1) : hret[b].hi < hret[b + 1].lo
        /\ hret[1].lo <= 1
        /\ \A b \in 1..(Len(hret) - 1) : hret[b + 1].lo - hret[b].hi <= 1
        /\ 2 * hret[Len(hret)].hi < hcall.fs
        /\ hcall.fs - 2 * hret[Len(hret)].hi <= 2

\* C2 amended: whenever getfilts returns for n >= 1 bands, with step =
\* int((fs/2)/n), the n cutoff pairs are strictly increasing and
\* non-overlapping, the first starts at 1 Hz, each next band starts exactly
\* 1 Hz above the previous upper cutoff, and the last upper cutoff is
\* n*step - 1: below Nyquist, by less than n + 1 Hz (not by at most 1 Hz).
C2_BandsAmended ==
    (Returned("getfilts") /\ hcall.n >= 1) =>
        /\ Len(hret) = hcall.n
        /\ \A b \in 1..Len(hret) : hret[b].lo < hret[b].hi
        /\ \A b \in 1..(Len(hret) - 1) : hret[b].hi < hret[b + 1].lo
        /\ hret[1].lo = 1
        /\ \A b \in 1..(Len(hret) - 1) : hret[b + 1].lo = hret[b].hi + 1
        /\ \A b \in 1..Len(hret) : 2 * hret[b].hi = 2 * b * ((hcall.fs \div 2) \div hcall.n) - 2
        /\ 2 * hret[Len(hret)].hi < hcall.fs
        /\ hcall.fs - 2 * hret[Len(hret)].hi < 2 * (hcall.n + 1)

\* getfilts returned three bands whose last upper cutoff is 2 Hz under Nyquist.
C2_Witness ==
    /\ Returned("getfilts")
    /\ hcall.n = 3
    /\ hcall.fs - 2 * hret[3].hi > 2

\* The number of positions of list xs that hold v.
Count(xs, v) == Cardinality({k \in 1..Len(xs) : xs[k] = v})

\* C8: for a list of N bands and a permutation p of 0..N-1, shuffle returns N
\* bands with output[i] = bands[p[i]], the same bands with the same
\* multiplicities, and shuffling the result with the inverse of p gives the
\* bands back in their original order.
C8_ShuffleIsPermutation ==
    /\ hcall.fn = "shuffle" => hpc # "raised"
    /\ Returned("shuffle") =>
          /\ Len(hret) = Len(hcall.bands)
          /\ \A k \in 1..Len(hret) : hret[k] = hcall.bands[hcall.book[k] + 1]
          /\ \A v \in BandVals : Count(hret, v) = Count(hcall.bands, v)
    /\ (hcall.fn = "shuffle" /\ hpc = "back") => hback = hcall.bands

\* Three different bands went through a book that is not its own inverse,
\* and back.
C8_Witness ==
    /\ hcall.fn = "shuffle"
    /\ hpc = "back"
    /\ hcall.book = <<1, 2, 0>>
    /\ hcall.bands = <<"a", "b", "c">>
    /\ hret = <<"b", "c", "a">>

\* The standard-table entry of band i (i counted from 0).
TableEntry(k) == standard_carriers[(k % 8) + 1]

\* C9: generate_carriers and generate_lpfilters return n entries for band
\* count n >= 0; carrier i has the table frequency at index i mod 8 and
\* low-pass filter i has that same frequency as its cutoff.  (generate_lpfilters
\* raises instead of returning only when a cutoff it needs is not under fs/2.)
C9_TableIndexMod8 ==
    /\ Returned("generate_carriers") =>
          /\ Len(hret) = hcall.n
          /\ \A k \in 0..(hcall.n - 1) : hret[k + 1].f = TableEntry(k)
    /\ Returned("generate_lpfilters") =>
          /\ Len(hret) = hcall.n
          /\ \A k \in 0..(hcall.n - 1) :
                /\ hret[k + 1].btype = "lowpass"
                /\ hret[k + 1].hi = TableEntry(k)
                /\ hret[k + 1].hi = generate_carriers(hcall.n, 8000)[k + 1].f
    /\ (hcall.fn = "generate_lpfilters" /\ hpc = "raised") =>
          \E k \in 0..(hcall.n - 1) : 2 * TableEntry(k) >= hcall.fs
    /\ hcall.fn = "generate_carriers" => hpc # "raised"

\* Nine low-pass filters were returned: band 8 wraps to table index 0.
C9_Witness ==
    /\ Returned("generate_lpfilters")
    /\ hcall.n = 9
    /\ hret[9].hi = 2632

\* The largest absolute sample of a buffer.
RECURSIVE MaxAbs(_)
MaxAbs(buf) ==
    IF Len(buf) = 0 THEN 0
    ELSE LET m == MaxAbs(Tail(buf))
         IN  IF Abs(buf[1]) > m THEN Abs(buf[1]) ELSE m

Sign(x) == IF x > 0 THEN 1 ELSE IF x < 0 THEN -1 ELSE 0

\* C10: a non-silent buffer is written divided by its largest absolute
\* sample: every written sample has magnitude at most 1 and the sign of the
\* sample it came from.
C10_PeakNormalised ==
    (Returned("write_wav_file") /\ MaxAbs(hcall.buf) > 0) =>
        \A k \in 1..Len(hcall.buf) :
            LET w == hret[1].data[k]
            IN  /\ w = Frac(hcall.buf[k], MaxAbs(hcall.buf))
                /\ w.den > 0
                /\ Abs(w.num) <= w.den
                /\ Sign(w.num) = Sign(hcall.buf[k])

====
